---- MODULE Spec2Model ----
(***************************************************************************)
(* Message utilities of langchain_core (messages/utils.py): normalising    *)
(* message-like inputs and trimming a message sequence to a token budget.  *)
(*                                                                         *)
(* A call of trim_messages is one step: Init draws the arguments of the    *)
(* call, TrimMessages runs the whole function and records what it returns  *)
(* or the exception it raises.  The calls of convert_to_messages,          *)
(* filter_messages and merge_message_runs are steps of the same kind, each *)
(* with a specification of its own that draws its arguments.               *)
(***************************************************************************)
EXTENDS Integers, Sequences, FiniteSets, TLC

VARIABLES messages, n_tokens, strategy, allow_partial, end_on, start_on,
          keep_system, criteria, pc, result

vars == <<messages, n_tokens, strategy, allow_partial, end_on, start_on,
          keep_system, criteria, pc, result>>

(***************************************************************************)
(* Bounds of the checked inputs.                                           *)
(***************************************************************************)
MaxLen == 3
MaxTokens == 3
MaxInputs == 2
MaxRun == 3

(***************************************************************************)
(* Values.  A text is a sequence of characters; NL is the line break the   *)
(* default text splitter splits on.  A content is a plain string or a list *)
(* of content blocks.  A message carries its type label and its content.   *)
(***************************************************************************)
NL == "\n"

StrContent(text) == [kind |-> "str", text |-> text]
ListContent(blocks) == [kind |-> "list", blocks |-> blocks]
TextBlock(text) == [type |-> "text", text |-> text]

BaseMessage(type, content) ==
    [shape |-> "BaseMessage", type |-> type, content |-> content]
SystemMessage(content) == BaseMessage("system", content)
HumanMessage(content) == BaseMessage("human", content)
AIMessage(content) == BaseMessage("ai", content)
FunctionMessage(content) == BaseMessage("function", content)
ToolMessage(content) == BaseMessage("tool", content)

\* isinstance(msg, cls) for the plain message classes, named by their label.
IsInstance(msg, cls) == msg.type = cls

\* The outcome of a call: the value returned, or the exception raised.
Returned(value) == [err |-> "none", value |-> value]
Raised(err) == [err |-> err, value |-> <<>>]

\* An optional argument that was not given.
None == [form |-> "none"]

(***************************************************************************)
(* Sequence helpers: Python's slices.                                      *)
(***************************************************************************)
\* s[:k], for k >= 0
Prefix(s, k) == SubSeq(s, 1, IF k < Len(s) THEN k ELSE Len(s))

\* Mutant of Reverse: the reversal is left out.
ReverseKeepsOrder(s) == s

\* s[::-1]
Reverse(s) == [i \in 1..Len(s) |-> s[Len(s) + 1 - i]]

\* s[1::-1]: from index 1 down to index 0
SliceOneDown(s) ==
    IF Len(s) = 0 THEN <<>>
    ELSE IF Len(s) = 1 THEN <<s[1]>>
    ELSE <<s[2], s[1]>>

RECURSIVE SumSeq(_)
SumSeq(s) == IF s = <<>> THEN 0 ELSE s[1] + SumSeq(Tail(s))

(***************************************************************************)
(* Normalising message-like inputs.  A message-like is a message (shape    *)
(* "BaseMessage"), a plain string (shape "str", field text), a sequence    *)
(* (shape "seq", field items), a dict (shape "dict", field d) or anything  *)
(* else (shape "other").                                                   *)
(***************************************************************************)
Converted(msg) == [err |-> "none", msg |-> msg]
NotConverted(err) == [err |-> err, msg |-> None]

\* Mutant of CreateMessageFromMessageType: "assistant" is not in the table.
CreateMessageNoAssistant(message_type, content) ==
    IF message_type \in {"human", "user"} THEN Converted(HumanMessage(content))
    ELSE IF message_type = "ai" THEN Converted(AIMessage(content))
    ELSE IF message_type = "system" THEN Converted(SystemMessage(content))
    ELSE IF message_type = "function" THEN Converted(FunctionMessage(content))
    ELSE IF message_type = "tool" THEN Converted(ToolMessage(content))
    ELSE NotConverted("UnknownMessageType")

\* ValueError "Unexpected message type" is UnknownMessageType.
CreateMessageFromMessageType(message_type, content) ==
    IF message_type \in {"human", "user"} THEN Converted(HumanMessage(content))
    ELSE IF message_type \in {"ai", "assistant"} THEN Converted(AIMessage(content))
    ELSE IF message_type = "system" THEN Converted(SystemMessage(content))
    ELSE IF message_type = "function" THEN Converted(FunctionMessage(content))
    ELSE IF message_type = "tool" THEN Converted(ToolMessage(content))
    ELSE NotConverted("UnknownMessageType")

\* f restricted to the keys in S
Restrict(f, S) == [k \in S |-> f[k]]

\* Mutant of PoppedKeys: "type" is read without being popped.
PoppedKeysKeepsType(d) ==
    IF "role" \in DOMAIN d THEN {"role", "content"} \cap DOMAIN d
    ELSE IF "type" \in DOMAIN d THEN {"content"} \cap DOMAIN d
    ELSE {}

\* The keys of a message dict the pops of lines 221-225 take out: "role", or
\* else "type", and then "content"; a pop that finds no key ends them.
PoppedKeys(d) ==
    IF "role" \in DOMAIN d THEN {"role", "content"} \cap DOMAIN d
    ELSE IF "type" \in DOMAIN d THEN {"type", "content"} \cap DOMAIN d
    ELSE {}

\* The keyword arguments _create_message_from_message_type names itself; any
\* other key of a message dict goes into additional_kwargs.
NamedKwargs == {"name", "tool_call_id", "tool_calls", "id"}

\* The message built with **msg_kwargs, for the keys left in the dict.
WithKwargs(converted, msg_kwargs) ==
    LET named == DOMAIN msg_kwargs \cap NamedKwargs
        other == DOMAIN msg_kwargs \ NamedKwargs
    IN  IF converted.err # "none" THEN converted
        ELSE Converted(converted.msg @@ Restrict(msg_kwargs, named)
                 @@ (IF other = {} THEN <<>>
                     ELSE [additional_kwargs |-> Restrict(msg_kwargs, other)]))

\* ValueError "Message dict must contain ..." is MissingRequiredField,
\* NotImplementedError is UnsupportedInputShape.
ConvertToMessage(message) ==
    IF message.shape = "BaseMessage" THEN Converted(message)
    ELSE IF message.shape = "str"
    THEN CreateMessageFromMessageType("human", StrContent(message.text))
    ELSE IF message.shape = "seq" /\ Len(message.items) = 2
    THEN CreateMessageFromMessageType(message.items[1], message.items[2])
    ELSE IF message.shape = "dict"
    THEN LET d == message.d
             keys == DOMAIN d
         IN  IF ("role" \notin keys /\ "type" \notin keys) \/ "content" \notin keys
             THEN NotConverted("MissingRequiredField")
             ELSE WithKwargs(
                      CreateMessageFromMessageType(
                          IF "role" \in keys THEN d.role ELSE d.type, d.content),
                      Restrict(d, keys \ PoppedKeys(d)))
    ELSE NotConverted("UnsupportedInputShape")

\* The list comprehension stops at the first input that raises.
RECURSIVE ConvertToMessages(_)
ConvertToMessages(msgs) ==
    IF msgs = <<>> THEN Returned(<<>>)
    ELSE LET first == ConvertToMessage(Head(msgs))
         IN  IF first.err # "none" THEN Raised(first.err)
             ELSE LET rest == ConvertToMessages(Tail(msgs))
                  IN  IF rest.err # "none" THEN rest
                      ELSE Returned(<<first.msg>> \o rest.value)

\* Mutant of InputAfterConvert: the pops work on the caller's dict.
InputAfterConvertPopsInput(message) ==
    IF message.shape = "dict"
    THEN [message EXCEPT !.d = Restrict(@, DOMAIN @ \ PoppedKeys(@))]
    ELSE message

\* The caller's input after _convert_to_message: the pops take the keys out
\* of msg_kwargs, a copy of the dict (line 219), and nothing else is written.
InputAfterConvert(message) == message

\* The inputs the list comprehension gets to: up to the first that raises.
LastConverted(msgs) ==
    LET failing == {i \in 1..Len(msgs) : ConvertToMessage(msgs[i]).err # "none"}
    IN  IF failing = {} THEN Len(msgs)
        ELSE CHOOSE i \in failing : \A j \in failing : i <= j

\* The caller's sequence after convert_to_messages.
InputsAfterConvert(msgs) ==
    [i \in 1..Len(msgs) |->
        IF i <= LastConverted(msgs) THEN InputAfterConvert(msgs[i]) ELSE msgs[i]]

(***************************************************************************)
(* The caller's collaborators: a per-message token counter (one token per  *)
(* character that is not a line break), summed over a list as              *)
(* list_token_counter does, and the default text splitter.                 *)
(***************************************************************************)
CountText(text) == Cardinality({i \in 1..Len(text) : text[i] # NL})

TokenCounter(msg) ==
    IF msg.content.kind = "str" THEN CountText(msg.content.text)
    ELSE SumSeq([i \in 1..Len(msg.content.blocks) |->
                     CountText(msg.content.blocks[i].text)])

ListTokenCounter(msgs) == SumSeq([i \in 1..Len(msgs) |-> TokenCounter(msgs[i])])

\* text.split("\n")
RECURSIVE DefaultTextSplitter(_)
DefaultTextSplitter(text) ==
    IF \A i \in 1..Len(text) : text[i] # NL THEN <<text>>
    ELSE LET i == CHOOSE j \in 1..Len(text) :
                      text[j] = NL /\ \A k \in 1..(j - 1) : text[k] # NL
         IN  <<SubSeq(text, 1, i - 1)>>
                 \o DefaultTextSplitter(SubSeq(text, i + 1, Len(text)))

(***************************************************************************)
(* _first_n_tokens.  idx counts the messages kept, as in the source.       *)
(***************************************************************************)
\* Mutant of FirstFittingIdx: "<" for "<=" in the budget test.
RECURSIVE FirstFittingIdxStrict(_, _, _)
FirstFittingIdxStrict(msgs, n, i) ==
    IF i >= Len(msgs) THEN 0
    ELSE IF ListTokenCounter(Prefix(msgs, Len(msgs) - i)) < n
    THEN Len(msgs) - i
    ELSE FirstFittingIdxStrict(msgs, n, i + 1)

\* for i in range(len(messages)): the first i whose prefix fits, else idx = 0
RECURSIVE FirstFittingIdx(_, _, _)
FirstFittingIdx(msgs, n, i) ==
    IF i >= Len(msgs) THEN 0
    ELSE IF ListTokenCounter(Prefix(msgs, Len(msgs) - i)) <= n
    THEN Len(msgs) - i
    ELSE FirstFittingIdx(msgs, n, i + 1)

\* Mutant of DropTrailingBlocks: the first block is dropped, not the last.
RECURSIVE DropLeadingBlocks(_, _, _, _, _, _)
DropLeadingBlocks(msgs, idx, excluded, blocks, iters, n) ==
    IF iters <= 0
    THEN [included |-> FALSE, messages |-> msgs, idx |-> idx]
    ELSE LET shorter == Tail(blocks)
             candidate == Prefix(msgs, idx)
                 \o <<[excluded EXCEPT !.content = ListContent(shorter)]>>
         IN  IF ListTokenCounter(candidate) <= n
             THEN [included |-> TRUE, messages |-> candidate, idx |-> idx + 1]
             ELSE DropLeadingBlocks(msgs, idx, excluded, shorter, iters - 1, n)

\* for _ in range(iters): drop the last block of excluded and retest
RECURSIVE DropTrailingBlocks(_, _, _, _, _, _)
DropTrailingBlocks(msgs, idx, excluded, blocks, iters, n) ==
    IF iters <= 0
    THEN [included |-> FALSE, messages |-> msgs, idx |-> idx]
    ELSE LET shorter == Prefix(blocks, Len(blocks) - 1)
             candidate == Prefix(msgs, idx)
                 \o <<[excluded EXCEPT !.content = ListContent(shorter)]>>
         IN  IF ListTokenCounter(candidate) <= n
             THEN [included |-> TRUE, messages |-> candidate, idx |-> idx + 1]
             ELSE DropTrailingBlocks(msgs, idx, excluded, shorter, iters - 1, n)

\* The text the splitter fallback works on; <<>> stands for None and "".
FallbackText(content) ==
    IF content.kind = "list"
       /\ \E i \in 1..Len(content.blocks) : content.blocks[i].type = "text"
    THEN LET i == CHOOSE j \in 1..Len(content.blocks) :
                      /\ content.blocks[j].type = "text"
                      /\ \A k \in 1..(j - 1) : content.blocks[k].type # "text"
         IN  content.blocks[i].text
    ELSE IF content.kind = "str" THEN content.text
    ELSE <<>>

\* The body of "if idx < len(messages) - 1 and allow_partial".
PartialInclude(msgs, idx, n) ==
    LET excluded == msgs[idx + 1]
        byBlock ==
            IF excluded.content.kind = "list"
            THEN DropTrailingBlocks(msgs, idx, excluded, excluded.content.blocks,
                                    Len(excluded.content.blocks) - 1, n)
            ELSE [included |-> FALSE, messages |-> msgs, idx |-> idx]
        text == FallbackText(excluded.content)
        split_texts == DefaultTextSplitter(text)
    IN  IF byBlock.included THEN byBlock
        ELSE IF text # <<>>
        THEN DropTrailingBlocks(msgs, idx, excluded,
                 [i \in 1..Len(split_texts) |-> TextBlock(split_texts[i])],
                 Len(split_texts) - 1, n)
        ELSE byBlock

\* Mutant of AlignEnd: "if" for "while", the boundary moves back once at most.
AlignEndOnce(msgs, idx, type) ==
    LET last == IF idx = 0 THEN msgs[Len(msgs)] ELSE msgs[idx]
    IN  IF ~IsInstance(last, type) /\ idx > 0 THEN idx - 1 ELSE idx

\* while <messages[idx - 1] is not of the end_on type> and idx > 0: idx -= 1
\* (messages[-1] is the last message).
RECURSIVE AlignEnd(_, _, _)
AlignEnd(msgs, idx, type) ==
    LET last == IF idx = 0 THEN msgs[Len(msgs)] ELSE msgs[idx]
    IN  IF ~IsInstance(last, type) /\ idx > 0
        THEN AlignEnd(msgs, idx - 1, type)
        ELSE idx

FirstNTokens(msgs, n, partial, endOn) ==
    LET idx == FirstFittingIdx(msgs, n, 0)
        p == IF idx < Len(msgs) - 1 /\ partial
             THEN PartialInclude(msgs, idx, n)
             ELSE [included |-> FALSE, messages |-> msgs, idx |-> idx]
    IN  IF endOn.form \in {"str", "class"}
        THEN IF p.messages = <<>> THEN Raised("IndexError")
             ELSE Returned(Prefix(p.messages, AlignEnd(p.messages, p.idx, endOn.type)))
        ELSE Returned(Prefix(p.messages, p.idx))

(***************************************************************************)
(* _last_n_tokens                                                          *)
(***************************************************************************)
LastNTokens(msgs, n, partial, keepSystem, startOn) ==
    IF keepSystem /\ msgs = <<>> THEN Raised("IndexError")
    ELSE LET swapped_system == keepSystem /\ IsInstance(msgs[1], "system")
             reversed_ == IF swapped_system
                          THEN Prefix(msgs, 1) \o SliceOneDown(msgs)
                          ELSE Reverse(msgs)
             trimmed == FirstNTokens(reversed_, n, partial, startOn)
         IN  IF trimmed.err # "none" THEN trimmed
             ELSE IF swapped_system
             THEN Returned(Prefix(trimmed.value, 1) \o SliceOneDown(trimmed.value))
             ELSE Returned(Reverse(trimmed.value))

(***************************************************************************)
(* trim_messages                                                           *)
(***************************************************************************)
\* Mutant of Truthy: only a label or a class counts as given.
TruthyUnlessSeq(opt) == opt.form \in {"str", "class"}

\* Python truth of an optional end_on / start_on argument.
Truthy(opt) == opt.form # "none" /\ (opt.form = "seq" => opt.items # <<>>)

\* Mutant of TrimResult: "else" for the "elif" of strategy "last", so that
\* any other strategy trims as "last" does.
TrimResultElseLast(msgs, n, strat, partial, endOn, startOn, keepSystem) ==
    IF Truthy(endOn) /\ strat = "last" THEN Raised("IncompatibleOptions")
    ELSE IF Truthy(startOn) /\ strat = "first" THEN Raised("IncompatibleOptions")
    ELSE IF keepSystem /\ strat = "first" THEN Raised("IncompatibleOptions")
    ELSE LET converted == ConvertToMessages(msgs)
         IN  IF converted.err # "none" THEN converted
             ELSE IF strat = "first"
             THEN FirstNTokens(converted.value, n, partial, endOn)
             ELSE LastNTokens(converted.value, n, partial, keepSystem, startOn)

\* The three "raise ValueError" of the option checks are IncompatibleOptions,
\* the last one is UnrecognizedStrategy.
TrimResult(msgs, n, strat, partial, endOn, startOn, keepSystem) ==
    IF Truthy(endOn) /\ strat = "last" THEN Raised("IncompatibleOptions")
    ELSE IF Truthy(startOn) /\ strat = "first" THEN Raised("IncompatibleOptions")
    ELSE IF keepSystem /\ strat = "first" THEN Raised("IncompatibleOptions")
    ELSE LET converted == ConvertToMessages(msgs)
         IN  IF converted.err # "none" THEN converted
             ELSE IF strat = "first"
             THEN FirstNTokens(converted.value, n, partial, endOn)
             ELSE IF strat = "last"
             THEN LastNTokens(converted.value, n, partial, keepSystem, startOn)
             ELSE Raised("UnrecognizedStrategy")

\* Mutant of InputsAfterTrim: excluded is the boundary message itself, not a
\* deep copy of it, so the truncated content is written to the input.
InputsAfterTrimNoCopy(msgs, n, strat, partial, endOn, startOn, keepSystem) ==
    LET converted == ConvertToMessages(msgs)
        trimmed == TrimResult(msgs, n, strat, partial, endOn, startOn, keepSystem)
        searched == IF strat = "first" THEN converted.value
                    ELSE Reverse(converted.value)
        idx == FirstFittingIdx(searched, n, 0)
        p == PartialInclude(searched, idx, n)
        at == IF strat = "first" THEN idx + 1 ELSE Len(msgs) - idx
    IN  IF /\ trimmed.err = "none" /\ partial /\ ~keepSystem
           /\ idx < Len(searched) - 1
           /\ p.included
           /\ msgs[at].shape = "BaseMessage"
        THEN [msgs EXCEPT ![at].content = p.messages[p.idx].content]
        ELSE msgs

\* The caller's sequence after trim_messages: the inputs are read by
\* convert_to_messages, and the writes of lines 494, 520 and 522 go to
\* excluded, a deep copy of the boundary message (lines 491 and 501).
InputsAfterTrim(msgs, n, strat, partial, endOn, startOn, keepSystem) ==
    IF TrimResult(msgs, n, strat, partial, endOn, startOn, keepSystem).err
           = "IncompatibleOptions"
    THEN msgs
    ELSE InputsAfterConvert(msgs)

(***************************************************************************)
(* The inputs of the checked calls.                                        *)
(***************************************************************************)
Texts == {<<"a">>, <<"a", NL, "a">>}

\* Plain strings of one and of two lines, and a list of two text blocks.
Contents ==
    {StrContent(t) : t \in Texts}
        \cup {ListContent(<<TextBlock(<<"a">>), TextBlock(<<"a">>)>>)}

MsgTypes == {"system", "human"}

Messages == {BaseMessage(t, c) : t \in MsgTypes, c \in Contents}

\* Inputs still to be normalised: a (role, content) pair of a known role and
\* one of a role outside the dispatch table.
MessageLikes ==
    Messages \cup {[shape |-> "seq", items |-> <<r, StrContent(<<"a">>)>>] :
                       r \in {"user", "chat"}}

RECURSIVE SeqsUpTo(_, _)
SeqsUpTo(S, n) ==
    IF n = 0 THEN {<<>>}
    ELSE LET shorter == SeqsUpTo(S, n - 1)
         IN  shorter \cup {Append(s, x) : s \in {t \in shorter : Len(t) = n - 1}, x \in S}

Strategies == {"first", "last", "middle"}

\* filter_messages called with no criterion at all (every argument None).
NoCriteria ==
    [incl_names |-> <<>>, excl_names |-> <<>>, incl_types |-> <<>>,
     excl_types |-> <<>>, incl_ids |-> <<>>, excl_ids |-> <<>>]

\* end_on / start_on: absent, a type label, a message class, or a sequence.
BoundaryTypes ==
    {None, [form |-> "seq", items |-> <<"human">>]}
        \cup {[form |-> f, type |-> t] : f \in {"str", "class"}, t \in MsgTypes}

\* The option checks of trim_messages let the call through.
Compatible ==
    /\ strategy \in {"first", "last"}
    /\ strategy = "last" => end_on = None
    /\ strategy = "first" => start_on = None /\ ~keep_system

\* A call the option checks reject, or one of an unknown strategy, looks at
\* most at whether its inputs normalise: one input is enough for these.
Init ==
    /\ n_tokens \in 0..MaxTokens
    /\ strategy \in Strategies
    /\ allow_partial \in BOOLEAN
    /\ end_on \in BoundaryTypes
    /\ start_on \in BoundaryTypes
    /\ keep_system \in BOOLEAN
    /\ messages \in SeqsUpTo(MessageLikes, IF Compatible THEN MaxLen ELSE 1)
    /\ criteria = NoCriteria
    /\ pc = "call"
    /\ result = Returned(<<>>)

TrimMessages ==
    /\ pc = "call"
    /\ result' = TrimResult(messages, n_tokens, strategy, allow_partial,
                            end_on, start_on, keep_system)
    /\ messages' = InputsAfterTrim(messages, n_tokens, strategy, allow_partial,
                                   end_on, start_on, keep_system)
    /\ pc' = "done"
    /\ UNCHANGED <<n_tokens, strategy, allow_partial, end_on,
                   start_on, keep_system, criteria>>

Next == TrimMessages

Spec == Init /\ [][Next]_vars

(***************************************************************************)
(* Calls of convert_to_messages.                                           *)
(***************************************************************************)
\* The arguments of trim_messages, where another function is called.
NoTrimArguments ==
    /\ n_tokens = 0
    /\ strategy = "last"
    /\ allow_partial = FALSE
    /\ end_on = None
    /\ start_on = None
    /\ keep_system = FALSE

\* The role strings of the dispatch table, and one outside it.
Roles == {"human", "user", "ai", "assistant", "system", "function", "tool", "chat"}

RoleContents == {StrContent(<<"a">>), StrContent(<<"b">>)}

Pair(role, content) == [shape |-> "seq", items |-> <<role, content>>]
Dict(d) == [shape |-> "dict", d |-> d]

\* Messages, plain strings (one of length 2), pairs, sequences of another
\* length, dicts with and without the required keys and with further keys,
\* and a value of no supported shape.
NormalizeInputs ==
    {HumanMessage(StrContent(<<"a">>)), BaseMessage("chat", StrContent(<<"a">>))}
        \cup {[shape |-> "str", text |-> t] : t \in {<<"a">>, <<"h", "i">>}}
        \cup {Pair(r, c) : r \in Roles, c \in RoleContents}
        \cup {[shape |-> "seq", items |-> <<"human">>],
              [shape |-> "seq",
               items |-> <<"human", StrContent(<<"a">>), StrContent(<<"b">>)>>]}
        \cup {Dict([role |-> r, content |-> c]) : r \in Roles, c \in RoleContents}
        \cup {Dict([type |-> r, content |-> c]) : r \in Roles, c \in RoleContents}
        \cup {Dict([role |-> "user"]), Dict([type |-> "user"]),
              Dict([content |-> StrContent(<<"a">>)]),
              Dict([name |-> "n"]),
              Dict([role |-> "user", type |-> "system",
                    content |-> StrContent(<<"a">>)]),
              Dict([role |-> "user", content |-> StrContent(<<"a">>),
                    name |-> "n", id |-> "x", function_call |-> "f"])}
        \cup {[shape |-> "other"]}

InitNormalize ==
    /\ messages \in SeqsUpTo(NormalizeInputs, MaxInputs)
    /\ NoTrimArguments
    /\ criteria = NoCriteria
    /\ pc = "call"
    /\ result = Returned(<<>>)

ConvertToMessagesCall ==
    /\ pc = "call"
    /\ result' = ConvertToMessages(messages)
    /\ messages' = InputsAfterConvert(messages)
    /\ pc' = "done"
    /\ UNCHANGED <<n_tokens, strategy, allow_partial, end_on, start_on,
                   keep_system, criteria>>

NextNormalize == ConvertToMessagesCall

SpecNormalize == InitNormalize /\ [][NextNormalize]_vars

(***************************************************************************)
(* Vocabulary of the properties.                                           *)
(***************************************************************************)
Done == pc = "done"

\* The call got past the option checks and its inputs normalised.
Normalized == ConvertToMessages(messages)
Trimmed == Done /\ Compatible /\ Normalized.err = "none"

\* s[len(s) - k:]
Suffix(s, k) == SubSeq(s, Len(s) - k + 1, Len(s))

Max(S) == CHOOSE k \in S : \A j \in S : j <= k

\* The length of the longest prefix (suffix) within the budget, 0 if none is.
LongestPrefixLen(ms, n) ==
    Max({k \in 0..Len(ms) : k = 0 \/ ListTokenCounter(Prefix(ms, k)) <= n})
LongestSuffixLen(ms, n) ==
    Max({k \in 0..Len(ms) : k = 0 \/ ListTokenCounter(Suffix(ms, k)) <= n})

\* C1: strategy "first" without allow_partial and end_on returns messages[0:k]
\* for the largest k in 0..len(messages) with k = 0 or a count within budget.
C1_FirstKeepsLongestPrefix ==
    (Trimmed /\ strategy = "first" /\ ~allow_partial /\ end_on = None)
        => result = Returned(Prefix(Normalized.value,
                                    LongestPrefixLen(Normalized.value, n_tokens)))

\* Three messages of one token each and a budget of two: the first two are kept.
C1_Witness ==
    /\ Trimmed /\ strategy = "first" /\ ~allow_partial /\ end_on = None
    /\ Len(Normalized.value) = 3
    /\ \A i \in 1..3 : TokenCounter(Normalized.value[i]) = 1
    /\ n_tokens = 2
    /\ result = Returned(Prefix(Normalized.value, 2))

\* C2: strategy "last" without allow_partial, start_on and keep_system returns
\* the longest suffix within the budget, in the input's order.
C2_LastKeepsLongestSuffix ==
    (Trimmed /\ strategy = "last" /\ ~allow_partial /\ start_on = None
        /\ ~keep_system)
        => result = Returned(Suffix(Normalized.value,
                                    LongestSuffixLen(Normalized.value, n_tokens)))

\* Three distinct messages of which only the last two fit.
C2_Witness ==
    /\ Trimmed /\ strategy = "last" /\ ~allow_partial /\ start_on = None
    /\ ~keep_system
    /\ Len(Normalized.value) = 3
    /\ Normalized.value[2] # Normalized.value[3]
    /\ result = Returned(Suffix(Normalized.value, 2))

\* a and b are the same messages, but that the message at position i (none
\* for i = 0) may have another content.
SameBut(a, b, i) ==
    /\ Len(a) = Len(b)
    /\ \A j \in 1..Len(a) : a[j] = b[j] \/ (j = i /\ a[j].type = b[j].type)

\* The call kept a leading system message aside.
SwappedSystem ==
    /\ Trimmed /\ strategy = "last" /\ keep_system
    /\ Normalized.value # <<>>
    /\ IsInstance(Normalized.value[1], "system")

\* C3: strategy "last" with keep_system on an input that starts with a system
\* message returns that system message followed by a suffix of messages[1:]
\* in the input's order (the first of them possibly truncated under
\* allow_partial).
C3_KeepSystemLeadsOnce ==
    SwappedSystem =>
        /\ result.err = "none"
        /\ result.value # <<>>
        /\ result.value[1] = Normalized.value[1]
        /\ \E k \in 0..(Len(Normalized.value) - 1) :
               SameBut(Tail(result.value), Suffix(Tail(Normalized.value), k),
                       IF allow_partial THEN 1 ELSE 0)

\* C4: the result is the input with one contiguous prefix or suffix removed
\* (behind a kept system message under keep_system) and at most the one
\* boundary message rewritten: order kept, no message more often than in the
\* input.
C4_TrimOnlyCutsOneEnd ==
    (Trimmed /\ result.err = "none") =>
        LET ms == Normalized.value
            b(i) == IF allow_partial THEN i ELSE 0
        IN  \E k \in 0..Len(ms) :
                \/ strategy = "first" /\ SameBut(result.value, Prefix(ms, k), b(k))
                \/ strategy = "last" /\ SameBut(result.value, Suffix(ms, k), b(1))
                \/ /\ SwappedSystem
                   /\ k >= 1
                   /\ SameBut(result.value,
                              <<ms[1]>> \o Suffix(Tail(ms), k - 1), b(2))

\* C5: the token count of the returned sequence never exceeds n_tokens.
C5_WithinBudget ==
    (Trimmed /\ result.err = "none")
        => ListTokenCounter(result.value) <= n_tokens

\* msg with the first j blocks of its block list
WithBlocks(msg, j) ==
    [msg EXCEPT !.content = ListContent(Prefix(msg.content.blocks, j))]

\* The first excluded message of a "first" call with allow_partial has a block
\* list of which a non-empty proper prefix fits behind the kept prefix.
BlockPrefixFits ==
    LET ms == Normalized.value
        k == LongestPrefixLen(ms, n_tokens)
    IN  /\ Trimmed /\ strategy = "first" /\ allow_partial /\ end_on = None
        /\ k < Len(ms)
        /\ ms[k + 1].content.kind = "list"
        /\ \E j \in 1..(Len(ms[k + 1].content.blocks) - 1) :
               ListTokenCounter(Append(Prefix(ms, k), WithBlocks(ms[k + 1], j)))
                   <= n_tokens

\* C6: in that case the result is the kept prefix followed by a copy of the
\* message with fewer blocks, within the budget, wherever the boundary lies.
C6_PartialBlocksAtEveryBoundary ==
    BlockPrefixFits =>
        LET ms == Normalized.value
            k == LongestPrefixLen(ms, n_tokens)
        IN  /\ result.err = "none"
            /\ Len(result.value) = k + 1
            /\ Prefix(result.value, k) = Prefix(ms, k)
            /\ result.value[k + 1].type = ms[k + 1].type
            /\ result.value[k + 1].content.kind = "list"
            /\ Len(result.value[k + 1].content.blocks)
                   < Len(ms[k + 1].content.blocks)
            /\ ListTokenCounter(result.value) <= n_tokens

\* C7: the call fails with IncompatibleOptions exactly when end_on comes with
\* strategy "last", or start_on or keep_system with strategy "first".
C7_IncompatibleOptionsIff ==
    Done =>
        (result = Raised("IncompatibleOptions")
            <=> \/ end_on # None /\ strategy = "last"
                \/ start_on # None /\ strategy = "first"
                \/ keep_system /\ strategy = "first")

\* end_on, given as a sequence, with strategy "last" on a non-empty input.
C7_Witness ==
    /\ Done /\ strategy = "last" /\ end_on.form = "seq" /\ messages # <<>>
    /\ start_on = None /\ ~keep_system
    /\ result = Raised("IncompatibleOptions")

\* C8 as claimed: a strategy other than "first" and "last" fails with
\* UnrecognizedStrategy whatever the messages are.
C8_UnknownStrategyAlwaysUnrecognized ==
    (Done /\ strategy \notin {"first", "last"})
        => result = Raised("UnrecognizedStrategy")

\* C8, amended: such a call never returns a sequence; it fails with
\* UnrecognizedStrategy when all its inputs normalise, and with the error of
\* the normalisation otherwise.
C8_UnknownStrategyNeverTrims ==
    (Done /\ strategy \notin {"first", "last"})
        => result = Raised(IF Normalized.err = "none" THEN "UnrecognizedStrategy"
                           ELSE Normalized.err)

\* An unknown strategy with end_on, start_on and keep_system all given, on an
\* input that normalises.
C8_Witness ==
    /\ Done /\ strategy = "middle"
    /\ end_on # None /\ start_on # None /\ keep_system
    /\ messages # <<>> /\ Normalized.err = "none"
    /\ result = Raised("UnrecognizedStrategy")

IsPrefix(a, b) == Len(a) <= Len(b) /\ a = Prefix(b, Len(a))

\* What the budget search of a "first" call selects, before any alignment.
Selected == FirstNTokens(Normalized.value, n_tokens, allow_partial, None).value

\* C9: with strategy "first" and end_on a label or a class, the result is empty
\* or ends with a message of that type, and is a prefix of what the budget
\* search selected.
C9_EndOnAligns ==
    (Trimmed /\ strategy = "first" /\ end_on.form \in {"str", "class"}
        /\ result.err = "none")
        => /\ result.value = <<>>
              \/ result.value[Len(result.value)].type = end_on.type
           /\ IsPrefix(result.value, Selected)

\* The alignment dropped two messages and kept one.
C9_Witness ==
    /\ Trimmed /\ strategy = "first" /\ end_on.form \in {"str", "class"}
    /\ result.err = "none"
    /\ Len(Selected) = 3
    /\ Len(result.value) = 1

\* C10: with strategy "last" and start_on, the result is empty or starts with a
\* message of that type; behind a system message kept by keep_system comes a
\* message of that type or nothing.
C10_StartOnAligns ==
    (Trimmed /\ strategy = "last" /\ start_on.form \in {"str", "class"}
        /\ result.err = "none")
        => IF SwappedSystem
           THEN \/ result.value = <<>>
                \/ /\ IsInstance(result.value[1], "system")
                   /\ Len(result.value) = 1
                      \/ result.value[2].type = start_on.type
           ELSE \/ result.value = <<>>
                \/ result.value[1].type = start_on.type

(***************************************************************************)
(* Properties of convert_to_messages (under SpecNormalize).                *)
(***************************************************************************)
IsPair(m) == m.shape = "seq" /\ Len(m.items) = 2
IsRoleDict(m) == m.shape = "dict" /\ DOMAIN m.d = {"role", "content"}
IsTypeDict(m) == m.shape = "dict" /\ DOMAIN m.d = {"type", "content"}

\* The role (or type) and the content a pair or a two-key mapping gives.
RoleAndContent(m) ==
    IF IsPair(m) THEN m.items
    ELSE IF IsRoleDict(m) THEN <<m.d.role, m.d.content>>
    ELSE <<m.d.type, m.d.content>>

TableRoles == {"human", "user", "ai", "assistant", "system", "function", "tool"}

GivesTableRole(m) ==
    /\ IsPair(m) \/ IsRoleDict(m) \/ IsTypeDict(m)
    /\ RoleAndContent(m)[1] \in TableRoles

\* C11: for a role of the dispatch table, the pair (r, c), the mapping
\* {role: r, content: c} and the mapping {type: r, content: c} normalise, and
\* to equal messages.
C11_PairAndMappingsAgree ==
    (Done /\ \A i \in 1..Len(messages) : GivesTableRole(messages[i]))
        => /\ result.err = "none"
           /\ Len(result.value) = Len(messages)
           /\ \A i, j \in 1..Len(messages) :
                  RoleAndContent(messages[i]) = RoleAndContent(messages[j])
                      => result.value[i] = result.value[j]

\* A pair and a {type, content} mapping of role "assistant" give one message.
C11_Witness ==
    /\ Done /\ Len(messages) = 2
    /\ IsPair(messages[1]) /\ IsTypeDict(messages[2])
    /\ RoleAndContent(messages[1]) = <<"assistant", StrContent(<<"b">>)>>
    /\ RoleAndContent(messages[2]) = RoleAndContent(messages[1])
    /\ result = Returned(<<AIMessage(StrContent(<<"b">>)),
                           AIMessage(StrContent(<<"b">>))>>)

\* The variant the dispatch table gives a role string.
VariantOfRole(r) ==
    IF r \in {"human", "user"} THEN "human"
    ELSE IF r \in {"ai", "assistant"} THEN "ai"
    ELSE r

\* A mapping with "content" and "role" or "type".
IsFullDict(m) ==
    /\ m.shape = "dict"
    /\ "content" \in DOMAIN m.d
    /\ "role" \in DOMAIN m.d \/ "type" \in DOMAIN m.d

DictRole(m) == IF "role" \in DOMAIN m.d THEN m.d.role ELSE m.d.type

\* The shapes C12 speaks of: all but the mappings that lack a required key.
Dispatched(m) == m.shape # "dict" \/ IsFullDict(m)

\* The error the reference dispatch gives an input, "none" if it gives a
\* message.
ReferenceError(m) ==
    IF m.shape \in {"BaseMessage", "str"} THEN "none"
    ELSE IF IsPair(m)
    THEN IF m.items[1] \in TableRoles THEN "none" ELSE "UnknownMessageType"
    ELSE IF m.shape = "dict"
    THEN IF DictRole(m) \in TableRoles THEN "none" ELSE "UnknownMessageType"
    ELSE "UnsupportedInputShape"

\* msg is the message the reference dispatch gives input m.
IsReferenceMessage(m, msg) ==
    IF m.shape = "BaseMessage" THEN msg = m
    ELSE IF m.shape = "str" THEN msg = HumanMessage(StrContent(m.text))
    ELSE IF IsPair(m)
    THEN msg = BaseMessage(VariantOfRole(m.items[1]), m.items[2])
    ELSE /\ msg.shape = "BaseMessage"
         /\ msg.type = VariantOfRole(DictRole(m))
         /\ msg.content = m.d.content

\* C12: every input behind inputs that normalise is treated as the reference
\* dispatch says: a message is returned as it is, a string becomes a human
\* message, a pair or mapping the variant of its role, a role outside the
\* table fails with UnknownMessageType and any other shape with
\* UnsupportedInputShape.
C12_NormalizeFollowsDispatch ==
    Done =>
        \A i \in 1..Len(messages) :
            (\A j \in 1..i : Dispatched(messages[j])
                /\ (j < i => ReferenceError(messages[j]) = "none"))
                => IF ReferenceError(messages[i]) # "none"
                   THEN result = Raised(ReferenceError(messages[i]))
                   ELSE /\ i = Len(messages) => result.err = "none"
                        /\ result.err = "none"
                               => IsReferenceMessage(messages[i], result.value[i])

\* The plain string "hi" becomes a human message; the sequence of three
\* behind it is of no supported shape.
C12_Witness ==
    /\ Done /\ Len(messages) = 2
    /\ messages[1] = [shape |-> "str", text |-> <<"h", "i">>]
    /\ messages[2].shape = "seq" /\ Len(messages[2].items) = 3
    /\ result = Raised("UnsupportedInputShape")

\* A mapping without "role" and "type", or without "content".
LacksRequiredKey(m) == m.shape = "dict" /\ ~IsFullDict(m)

\* C13: normalising such a mapping (behind inputs that normalise) fails with
\* MissingRequiredField, gives no message and leaves the inputs as they were.
C13_MissingKeyFails ==
    [][(/\ pc = "call"
        /\ \E i \in 1..Len(messages) :
               /\ LacksRequiredKey(messages[i])
               /\ \A j \in 1..(i - 1) : ConvertToMessage(messages[j]).err = "none")
           => /\ result' = Raised("MissingRequiredField")
              /\ messages' = messages]_vars

\* A mapping with a role and no content, behind a mapping that normalises.
C13_Witness ==
    /\ Done /\ Len(messages) = 2
    /\ IsRoleDict(messages[1])
    /\ LacksRequiredKey(messages[2]) /\ DOMAIN messages[2].d = {"role"}
    /\ result = Raised("MissingRequiredField")

(***************************************************************************)
(* filter_messages.                                                        *)
(***************************************************************************)
Elems(s) == {s[i] : i \in DOMAIN s}

\* [t for t in (types or ()) if isinstance(t, str)]
TypesStr(types) == {t.type : t \in {u \in Elems(types) : u.form = "str"}}

\* tuple(t for t in (types or ()) if isinstance(t, type))
TypesTypes(types) == {t.type : t \in {u \in Elems(types) : u.form = "class"}}

\* names and msg.name in names: the name of a message without one is None.
NameIn(msg, names) == "name" \in DOMAIN msg /\ msg.name \in Elems(names)

\* ids and msg.id in ids
IdIn(msg, ids) == "id" \in DOMAIN msg /\ msg.id \in Elems(ids)

\* isinstance(msg.type, classes): msg.type is a str, an instance of str alone.
TypeFieldIsInstance(msg, classes) == "str" \in classes

\* isinstance(msg, classes)
IsInstanceOfAny(msg, classes) == \E cls \in classes : IsInstance(msg, cls)

\* The exclude chain of lines 321-330.
Excluded(msg, c) ==
    \/ NameIn(msg, c.excl_names)
    \/ msg.type \in TypesStr(c.excl_types)
    \/ TypeFieldIsInstance(msg, TypesTypes(c.excl_types))
    \/ IdIn(msg, c.excl_ids)

\* Mutant of Included: a call without include criteria keeps every message.
IncludedByDefault(msg, c) ==
    \/ NameIn(msg, c.incl_names)
    \/ msg.type \in TypesStr(c.incl_types)
    \/ IsInstanceOfAny(msg, TypesTypes(c.incl_types))
    \/ IdIn(msg, c.incl_ids)
    \/ c.incl_names = <<>> /\ c.incl_types = <<>> /\ c.incl_ids = <<>>

\* The include chain of lines 332-345.
Included(msg, c) ==
    \/ NameIn(msg, c.incl_names)
    \/ msg.type \in TypesStr(c.incl_types)
    \/ IsInstanceOfAny(msg, TypesTypes(c.incl_types))
    \/ IdIn(msg, c.incl_ids)

\* The loop of lines 319-345 over the normalised messages.
RECURSIVE Filtered(_, _)
Filtered(msgs, c) ==
    IF msgs = <<>> THEN <<>>
    ELSE IF ~Excluded(Head(msgs), c) /\ Included(Head(msgs), c)
    THEN <<Head(msgs)>> \o Filtered(Tail(msgs), c)
    ELSE Filtered(Tail(msgs), c)

FilterResult(msgs, c) ==
    LET converted == ConvertToMessages(msgs)
    IN  IF converted.err # "none" THEN converted
        ELSE Returned(Filtered(converted.value, c))

\* Messages with and without a name and an id, and a pair.
FilterInputs ==
    {BaseMessage(t, StrContent(<<"a">>)) @@ name @@ id :
        t \in MsgTypes,
        name \in {<<>>, [name |-> "n"]},
        id \in {<<>>, [id |-> "x"]}}
        \cup {Pair("user", StrContent(<<"a">>))}

NameLists == {<<>>, <<"n">>}
IdLists == {<<>>, <<"x">>}

\* Types given as labels, as classes, and as both.
TypeLists ==
    {<<>>, <<[form |-> "str", type |-> "human"]>>,
     <<[form |-> "class", type |-> "human"]>>,
     <<[form |-> "str", type |-> "system"], [form |-> "class", type |-> "human"]>>}

InitFilter ==
    /\ messages \in SeqsUpTo(FilterInputs, MaxInputs)
    /\ criteria \in [incl_names : NameLists, excl_names : NameLists,
                     incl_types : TypeLists, excl_types : TypeLists,
                     incl_ids : IdLists, excl_ids : IdLists]
    /\ NoTrimArguments
    /\ pc = "call"
    /\ result = Returned(<<>>)

FilterMessages ==
    /\ pc = "call"
    /\ result' = FilterResult(messages, criteria)
    /\ messages' = InputsAfterConvert(messages)
    /\ pc' = "done"
    /\ UNCHANGED <<n_tokens, strategy, allow_partial, end_on, start_on,
                   keep_system, criteria>>

NextFilter == FilterMessages

SpecFilter == InitFilter /\ [][NextFilter]_vars

(***************************************************************************)
(* Properties of filter_messages (under SpecFilter).                       *)
(***************************************************************************)
\* msg is of a type of the list, given as a label or as a class.
TypeIn(msg, types) == \E t \in Elems(types) : msg.type = t.type

\* msg matches a criterion of the three lists.
Matches(msg, names, types, ids) ==
    NameIn(msg, names) \/ TypeIn(msg, types) \/ IdIn(msg, ids)

MatchesExclude(msg) ==
    Matches(msg, criteria.excl_names, criteria.excl_types, criteria.excl_ids)

MatchesInclude(msg) ==
    Matches(msg, criteria.incl_names, criteria.incl_types, criteria.incl_ids)

\* C14: no message of the result matches an exclude criterion: a name, a type
\* given as a label or as a class, or an id.
C14_NoExcludedReturned ==
    Done => \A i \in 1..Len(result.value) : ~MatchesExclude(result.value[i])

\* C14 for the criteria other than a class: no message of the result has an
\* excluded name, an excluded type label or an excluded id.
C14_NoExcludedButByClass ==
    Done => \A i \in 1..Len(result.value) :
                /\ ~NameIn(result.value[i], criteria.excl_names)
                /\ result.value[i].type \notin TypesStr(criteria.excl_types)
                /\ ~IdIn(result.value[i], criteria.excl_ids)

\* a is b with some elements left out.
RECURSIVE IsSubsequence(_, _)
IsSubsequence(a, b) ==
    IF a = <<>> THEN TRUE
    ELSE IF b = <<>> THEN FALSE
    ELSE IF Head(a) = Head(b) THEN IsSubsequence(Tail(a), Tail(b))
    ELSE IsSubsequence(a, Tail(b))

NoIncludeCriteria ==
    criteria.incl_names = <<>> /\ criteria.incl_types = <<>> /\ criteria.incl_ids = <<>>

\* C15: every message of the result matches an include criterion, the result
\* is empty when there is none, and the result is the normalised input with
\* some messages left out.
C15_OnlyIncludedInOrder ==
    (Done /\ result.err = "none")
        => /\ \A i \in 1..Len(result.value) : MatchesInclude(result.value[i])
           /\ NoIncludeCriteria => result.value = <<>>
           /\ IsSubsequence(result.value, Normalized.value)

\* Of two messages the one with the included id is kept.
C15_Witness ==
    /\ Done /\ Len(messages) = 2 /\ Len(result.value) = 1
    /\ criteria.incl_ids = <<"x">> /\ criteria.incl_names = <<>>
    /\ criteria.incl_types = <<>>
    /\ ~IdIn(Normalized.value[1], criteria.incl_ids)
    /\ result.value = <<Normalized.value[2]>>

\* No include criterion, an exclude criterion that matches nothing: empty.
C15_WitnessNoInclude ==
    /\ Done /\ NoIncludeCriteria /\ Len(messages) = 2
    /\ criteria.excl_ids = <<"x">>
    /\ \A i \in 1..2 : ~MatchesExclude(Normalized.value[i])
    /\ result = Returned(<<>>)

(***************************************************************************)
(* merge_message_runs.  The chunk classes and their "+" are not part of    *)
(* this file: a chunk is the message marked as partial, and "+" joins the  *)
(* contents, two strings to a string and two block lists to a block list   *)
(* whose text blocks at the seam are combined.                             *)
(***************************************************************************)
MsgToChunk(message) == [message EXCEPT !.shape = "BaseMessageChunk"]
ChunkToMsg(chunk) == [chunk EXCEPT !.shape = "BaseMessage"]

MergeContent(first, second) ==
    IF first.kind = "str" THEN StrContent(first.text \o second.text)
    ELSE LET a == first.blocks
             b == second.blocks
         IN  IF a # <<>> /\ b # <<>>
                 /\ a[Len(a)].type = "text" /\ Head(b).type = "text"
             THEN ListContent(Prefix(a, Len(a) - 1)
                      \o <<TextBlock(a[Len(a)].text \o Head(b).text)>> \o Tail(b))
             ELSE ListContent(a \o b)

ChunkAdd(first, second) ==
    [first EXCEPT !.content = MergeContent(first.content, second.content)]

\* last.__class__
ClassOf(msg) == msg.type

\* Mutant of MergeInto: the last merged message is read, not popped.
RECURSIVE MergeIntoKeepsLast(_, _)
MergeIntoKeepsLast(merged, rest) ==
    IF rest = <<>> THEN merged
    ELSE LET curr == Head(rest)
             last == merged[Len(merged)]
         IN  IF ~IsInstance(curr, ClassOf(last))
             THEN MergeIntoKeepsLast(Append(merged, curr), Tail(rest))
             ELSE MergeIntoKeepsLast(
                      Append(merged,
                             ChunkToMsg(ChunkAdd(MsgToChunk(last), MsgToChunk(curr)))),
                      Tail(rest))

\* Mutant of MergeInto: the message behind a merged pair starts a new run.
RECURSIVE MergeIntoPairs(_, _)
MergeIntoPairs(merged, rest) ==
    IF rest = <<>> THEN merged
    ELSE LET curr == Head(rest)
             last == merged[Len(merged)]
             front == Prefix(merged, Len(merged) - 1)
         IN  IF ~IsInstance(curr, ClassOf(last))
             THEN MergeIntoPairs(front \o <<last, curr>>, Tail(rest))
             ELSE LET sum == ChunkToMsg(ChunkAdd(MsgToChunk(last), MsgToChunk(curr)))
                  IN  IF Tail(rest) = <<>> THEN Append(front, sum)
                      ELSE MergeIntoPairs(front \o <<sum, Head(Tail(rest))>>,
                                          Tail(Tail(rest)))

\* The loop of lines 370-377: merged is the list so far, rest the messages
\* still to come.
RECURSIVE MergeInto(_, _)
MergeInto(merged, rest) ==
    IF rest = <<>> THEN merged
    ELSE LET curr == Head(rest)
             last == merged[Len(merged)]
             front == Prefix(merged, Len(merged) - 1)
         IN  IF ~IsInstance(curr, ClassOf(last))
             THEN MergeInto(front \o <<last, curr>>, Tail(rest))
             ELSE MergeInto(
                      Append(front,
                             ChunkToMsg(ChunkAdd(MsgToChunk(last), MsgToChunk(curr)))),
                      Tail(rest))

MergeResult(msgs) ==
    IF msgs = <<>> THEN Returned(<<>>)
    ELSE LET converted == ConvertToMessages(msgs)
         IN  IF converted.err # "none" THEN converted
             ELSE Returned(MergeInto(<<Head(converted.value)>>, Tail(converted.value)))

MergeTexts == {<<"a">>, <<"b">>}

\* Messages and pairs of string content, one pair of a role outside the
\* table.
MergeStrInputs ==
    {BaseMessage(t, StrContent(x)) : t \in MsgTypes, x \in MergeTexts}
        \cup {Pair(r, StrContent(<<"a">>)) : r \in {"assistant", "chat"}}

\* Messages of block-list content.
MergeListInputs ==
    {BaseMessage(t, ListContent(<<TextBlock(x)>>)) : t \in MsgTypes, x \in MergeTexts}

\* The contents of one call are all strings or all block lists.
InitMerge ==
    /\ messages \in SeqsUpTo(MergeStrInputs, MaxRun) \cup SeqsUpTo(MergeListInputs, MaxRun)
    /\ criteria = NoCriteria
    /\ NoTrimArguments
    /\ pc = "call"
    /\ result = Returned(<<>>)

MergeMessageRuns ==
    /\ pc = "call"
    /\ result' = MergeResult(messages)
    /\ messages' = InputsAfterConvert(messages)
    /\ pc' = "done"
    /\ UNCHANGED <<n_tokens, strategy, allow_partial, end_on, start_on,
                   keep_system, criteria>>

NextMerge == MergeMessageRuns

SpecMerge == InitMerge /\ [][NextMerge]_vars

(***************************************************************************)
(* Properties of merge_message_runs (under SpecMerge).                     *)
(***************************************************************************)
\* The text of a content: the string, or the texts of the blocks in a row.
RECURSIVE BlocksText(_)
BlocksText(blocks) ==
    IF blocks = <<>> THEN <<>> ELSE Head(blocks).text \o BlocksText(Tail(blocks))

TextOf(content) ==
    IF content.kind = "str" THEN content.text ELSE BlocksText(content.blocks)

\* The texts of msgs[from..to] in a row.
RECURSIVE TextOfRun(_, _, _)
TextOfRun(msgs, from, to) ==
    IF from > to THEN <<>>
    ELSE TextOf(msgs[from].content) \o TextOfRun(msgs, from + 1, to)

\* The positions where a maximal run of one variant starts.
RunStarts(msgs) == {i \in 1..Len(msgs) : i = 1 \/ msgs[i].type # msgs[i - 1].type}

\* The start of the k-th run, and its end.
RunStart(msgs, k) ==
    CHOOSE i \in RunStarts(msgs) : Cardinality({j \in RunStarts(msgs) : j <= i}) = k

RunEnd(msgs, k) ==
    IF k = Cardinality(RunStarts(msgs)) THEN Len(msgs) ELSE RunStart(msgs, k + 1) - 1

\* C16: the result has one message per maximal run of adjacent messages of
\* one variant, in the order of the runs, of the variant and the kind of
\* content of the run and with the contents of the run in a row as its
\* content; no two neighbours of the result share a variant, and the empty
\* input gives the empty result.
C16_OneMessagePerRun ==
    (Done /\ result.err = "none")
        => LET msgs == Normalized.value
               out == result.value
           IN  /\ Len(out) = Cardinality(RunStarts(msgs))
               /\ \A k \in 1..Len(out) :
                      /\ out[k].type = msgs[RunStart(msgs, k)].type
                      /\ out[k].shape = "BaseMessage"
                      /\ out[k].content.kind = msgs[RunStart(msgs, k)].content.kind
                      /\ TextOf(out[k].content)
                             = TextOfRun(msgs, RunStart(msgs, k), RunEnd(msgs, k))
               /\ \A k \in 1..(Len(out) - 1) : out[k].type # out[k + 1].type
               /\ messages = <<>> => out = <<>>

\* [human(a), human(b), ai(a)] gives [human(ab), ai(a)].
C16_Witness ==
    /\ Done
    /\ messages = <<HumanMessage(StrContent(<<"a">>)), HumanMessage(StrContent(<<"b">>)),
                    Pair("assistant", StrContent(<<"a">>))>>
    /\ result = Returned(<<HumanMessage(StrContent(<<"a", "b">>)),
                           AIMessage(StrContent(<<"a">>))>>)

\* C17: merging the result of a merge again gives the same result.
C17_MergeIdempotent ==
    (Done /\ result.err = "none") => MergeResult(result.value) = result

\* A run of three was merged into one message, which a second merge keeps.
C17_Witness ==
    /\ Done /\ Len(messages) = 3 /\ result.err = "none"
    /\ Len(result.value) = 1
    /\ TextOf(result.value[1].content) = <<"a", "b", "a">>
    /\ MergeResult(result.value) = result

(***************************************************************************)
(* Any of the four functions called on the same arguments.                 *)
(***************************************************************************)
\* Inputs of string content: messages of one and of two lines, a pair, a dict
\* and a dict without content.
CallStrInputs ==
    {HumanMessage(StrContent(<<"a", NL, "a">>)), HumanMessage(StrContent(<<"a">>)),
     SystemMessage(StrContent(<<"a">>)),
     Pair("user", StrContent(<<"a">>)),
     Dict([role |-> "user", content |-> StrContent(<<"a">>)]),
     Dict([type |-> "system"])}

\* Inputs of block-list content.
CallListInputs ==
    {BaseMessage(t, ListContent(<<TextBlock(<<"a">>), TextBlock(<<"a">>)>>)) :
        t \in MsgTypes}

InitCalls ==
    /\ messages \in SeqsUpTo(CallStrInputs, MaxInputs) \cup SeqsUpTo(CallListInputs, MaxInputs)
    /\ n_tokens \in 0..MaxTokens
    /\ strategy \in {"first", "last"}
    /\ allow_partial \in BOOLEAN
    /\ end_on = None
    /\ start_on = None
    /\ keep_system = FALSE
    /\ criteria \in {NoCriteria,
                     [NoCriteria EXCEPT !.incl_types = <<[form |-> "str", type |-> "human"]>>]}
    /\ pc = "call"
    /\ result = Returned(<<>>)

NextCalls ==
    \/ ConvertToMessagesCall
    \/ FilterMessages
    \/ MergeMessageRuns
    \/ TrimMessages

SpecCalls == InitCalls /\ [][NextCalls]_vars

C18_WitnessMerge ==
    /\ Done /\ Len(messages) = 2
    /\ messages[1] = HumanMessage(StrContent(<<"a">>))
    /\ messages[2] = HumanMessage(StrContent(<<"a">>))
    /\ result = Returned(<<HumanMessage(StrContent(<<"a", "a">>))>>)

(***************************************************************************)
(* Properties of trim_messages with keep_system (under Spec).              *)
(***************************************************************************)
\* A "last" call with keep_system whose first message is a system message.
KeepsSystem ==
    /\ Trimmed /\ strategy = "last" /\ keep_system
    /\ Normalized.value # <<>>
    /\ IsInstance(Normalized.value[1], "system")

\* The same call without keep_system on the messages behind the first.
TrimmedRest ==
    TrimResult(Tail(Normalized.value), n_tokens, "last", allow_partial,
               end_on, start_on, FALSE)

\* C19: such a call returns the system message followed by what the same call
\* without keep_system returns for messages[1:], whatever the token count of
\* the system message.
C19_SystemSetAside ==
    (KeepsSystem /\ TrimmedRest.err = "none")
        => result = Returned(<<Normalized.value[1]>> \o TrimmedRest.value)

(***************************************************************************)
(* trim_messages with allow_partial, on contents of several blocks and     *)
(* lines.                                                                  *)
(***************************************************************************)
\* Strings of one and of two lines; lists of two blocks, of one block of two
\* lines, and of a block of two lines and another block.
PartialContents ==
    {StrContent(<<"a">>), StrContent(<<"a", NL, "b">>),
     ListContent(<<TextBlock(<<"a">>), TextBlock(<<"b">>)>>),
     ListContent(<<TextBlock(<<"a", NL, "b">>)>>),
     ListContent(<<TextBlock(<<"a", NL, "b">>), TextBlock(<<"c">>)>>)}

PartialInputs == {HumanMessage(c) : c \in PartialContents}

InitPartial ==
    /\ messages \in SeqsUpTo(PartialInputs, MaxLen)
    /\ n_tokens \in 0..MaxTokens
    /\ strategy \in {"first", "last"}
    /\ allow_partial = TRUE
    /\ end_on = None
    /\ start_on = None
    /\ keep_system = FALSE
    /\ criteria = NoCriteria
    /\ pc = "call"
    /\ result = Returned(<<>>)

NextPartial == TrimMessages

SpecPartial == InitPartial /\ [][NextPartial]_vars

\* The position in the input of the message at the open end of the result.
BoundaryAt ==
    IF strategy = "first" THEN Len(result.value)
    ELSE Len(messages) - Len(result.value) + 1

\* The message at the open end of the result, and the input message it stands
\* for.
BoundaryMessage ==
    IF strategy = "first" THEN result.value[Len(result.value)] ELSE result.value[1]

OriginalMessage == Normalized.value[BoundaryAt]

\* The result ends in a message that was cut down.
PartiallyTruncated ==
    /\ Done /\ result.err = "none" /\ result.value # <<>>
    /\ BoundaryMessage # OriginalMessage

\* a is a non-empty proper prefix of b.
IsProperPrefix(a, b) == a # <<>> /\ Len(a) < Len(b) /\ IsPrefix(a, b)

\* The split units of a text, each as a text block.
SplitBlocks(text) ==
    LET split_texts == DefaultTextSplitter(text)
    IN  [i \in 1..Len(split_texts) |-> TextBlock(split_texts[i])]

\* A string content was replaced by a non-empty proper prefix of its split
\* units.
StringSplit ==
    OriginalMessage.content.kind = "str"
        => /\ BoundaryMessage.content.kind = "list"
           /\ IsProperPrefix(BoundaryMessage.content.blocks,
                             SplitBlocks(OriginalMessage.content.text))

\* C20: a message cut down from a block list holds a non-empty proper prefix
\* of the original blocks, and one cut down from a string a non-empty proper
\* prefix of its split units.
C20_BlocksOnlyDropped ==
    PartiallyTruncated
        => /\ OriginalMessage.content.kind = "list"
               => /\ BoundaryMessage.content.kind = "list"
                  /\ IsProperPrefix(BoundaryMessage.content.blocks,
                                    OriginalMessage.content.blocks)
           /\ StringSplit

\* The first text block of a block list.
FirstTextBlock(blocks) ==
    blocks[CHOOSE j \in 1..Len(blocks) :
               /\ blocks[j].type = "text"
               /\ \A k \in 1..(j - 1) : blocks[k].type # "text"]

\* The result with content as the content of its boundary message.
WithBoundaryContent(content) ==
    [result.value EXCEPT
        ![IF strategy = "first" THEN Len(result.value) ELSE 1].content = content]

\* C20 as the code has it: a message cut down from a block list holds a
\* non-empty proper prefix of the original blocks or, where the first block
\* alone takes the result over the budget, a non-empty proper prefix of the
\* split units of the first text block; one cut down from a string a non-empty proper prefix
\* of its split units.  The other fields of the message are kept.
C20_BlocksDroppedOrFirstTextSplit ==
    PartiallyTruncated
        => /\ BoundaryMessage = [OriginalMessage EXCEPT
                                    !.content = BoundaryMessage.content]
           /\ OriginalMessage.content.kind = "list"
               => /\ BoundaryMessage.content.kind = "list"
                  /\ \/ IsProperPrefix(BoundaryMessage.content.blocks,
                                       OriginalMessage.content.blocks)
                     \/ /\ ListTokenCounter(WithBoundaryContent(
                               ListContent(Prefix(OriginalMessage.content.blocks, 1))))
                               > n_tokens
                        /\ IsProperPrefix(
                               BoundaryMessage.content.blocks,
                               SplitBlocks(FirstTextBlock(
                                   OriginalMessage.content.blocks).text))
           /\ StringSplit

\* A block list of one block of two lines was cut down to its first line.
C20_Witness ==
    /\ PartiallyTruncated /\ strategy = "first"
    /\ OriginalMessage.content = ListContent(<<TextBlock(<<"a", NL, "b">>)>>)
    /\ BoundaryMessage.content = ListContent(<<TextBlock(<<"a">>)>>)

\* A block list of two blocks was cut down to its first block.
C20_WitnessBlocks ==
    /\ PartiallyTruncated /\ strategy = "last"
    /\ OriginalMessage.content = ListContent(<<TextBlock(<<"a">>), TextBlock(<<"b">>)>>)
    /\ BoundaryMessage.content = ListContent(<<TextBlock(<<"a">>)>>)

(***************************************************************************)
(* Properties of trim_messages on the empty sequence (under Spec).         *)
(***************************************************************************)
\* A call on no messages that the option checks let through.
TrimmedEmpty == Done /\ Compatible /\ messages = <<>>

\* C21: trim_messages on the empty sequence returns the empty sequence and
\* raises nothing, whatever the compatible options are.
C21_EmptyInputEmptyResult == TrimmedEmpty => result = Returned(<<>>)

\* C21 for the calls that name no boundary type as a label or a class and keep
\* no system message: these return the empty sequence.
C21_EmptyInputWithoutBoundary ==
    (TrimmedEmpty /\ end_on.form \notin {"str", "class"}
        /\ start_on.form \notin {"str", "class"} /\ ~keep_system)
        => result = Returned(<<>>)

====
